---- MODULE Spec2Model ----
(***************************************************************************)
(* Model of src/src/mmg-device.cpp: MMGDevice (per-direction activation    *)
(* against the MIDI port transport) and MMGDeviceManager (the registry and *)
(* its cascades over collections -> bindings -> messages).                 *)
(*                                                                         *)
(* Every handler is one atomic action.  What happens inside a handler      *)
(* (transport calls, binding->refresh() calls and what each refresh could  *)
(* observe) is computed step by step in the order of the source and        *)
(* recorded in the variable last.                                          *)
(***************************************************************************)
EXTENDS Integers, Sequences, FiniteSets, TLC

VARIABLES
    list,      \* MMGDeviceManager::_list: the registered devices, in order
    bindings,  \* config()->collections(), flattened: bindings, each a sequence of messages
    last       \* record of the most recent handler call

vars == <<list, bindings, last>>

\* ------------------------------------------------------------------ bounds
\* Largest "active" integer a config record carries.
MaxActive == 3
\* Number of bindings in the configuration tree.
NumBindings == 3

\* ------------------------------------------------------------- vocabulary
TYPE_NONE == "TYPE_NONE"
TYPE_INPUT == "TYPE_INPUT"
TYPE_OUTPUT == "TYPE_OUTPUT"
Directions == {TYPE_INPUT, TYPE_OUTPUT}

\* mmgtr("Device.Dummy"): the name of the placeholder device.
Dummy == "Dummy"
\* Names of real devices (config records), and all names add(name) is given.
RealNames == {"A"}
DeviceNames == RealNames \cup {Dummy}
ThruNames == {"", "T"}
\* The device names of the messages of the b-th binding of the tree: one
\* whose later message names "A", one whose first message does, one without
\* messages, then one naming "A" first and "B" second, and so on.
BindingShape(b) ==
    CASE b % 4 = 1 -> <<"B", "A">>
      [] b % 4 = 2 -> <<"A">>
      [] b % 4 = 3 -> << >>
      [] OTHER -> <<"A", "B">>

\* A null MMGDevice pointer.  Device objects are identified by ids >= 1.
NullDevice == 0

\* ---------------------------------------------------------------- bit ops
\* The mask bit of a direction: 0b01 for input, 0b10 for output.
Bit(type) == IF type = TYPE_INPUT THEN 1 ELSE IF type = TYPE_OUTPUT THEN 2 ELSE 0

\* mask & bit (as a truth value), for bit in {1, 2}.
HasBit(mask, bit) == bit > 0 /\ (mask \div bit) % 2 = 1

\* mask ^ bit, for bit in {1, 2}.
XorBit(mask, bit) == IF HasBit(mask, bit) THEN mask - bit ELSE mask + bit

\* mask with the bit set to the truth value on.
WithBit(mask, bit, on) == IF HasBit(mask, bit) = on THEN mask ELSE XorBit(mask, bit)

\* ------------------------------------------------------------ MMGMIDIPort
\* The transport collaborator.  ok tells whether the attempt takes effect;
\* opening an open port and closing a closed one change nothing.
openPort(d, type, ok) ==
    IF ok THEN [d EXCEPT !.port = WithBit(d.port, Bit(type), TRUE)] ELSE d

closePort(d, type, ok) ==
    IF ok THEN [d EXCEPT !.port = WithBit(d.port, Bit(type), FALSE)] ELSE d

isPortOpen(d, type) == HasBit(d.port, Bit(type))

isCapable(d, type) == HasBit(d.capable, Bit(type))

setCapable(d, type, on) == [d EXCEPT !.capable = WithBit(d.capable, Bit(type), on)]

\* MMGMIDIPort(parent, json_obj): a fresh port object named after the record,
\* nothing active, no port open.
MMGMIDIPort(id, name, capable, editable) ==
    [id |-> id, name |-> name, editable |-> editable, active |-> 0,
     capable |-> capable, port |-> 0, thru |-> ""]

\* -------------------------------------------------------------- MMGDevice
isActive(d, type) ==
    CASE type = TYPE_INPUT -> HasBit(d.active, 1)
      [] type = TYPE_OUTPUT -> HasBit(d.active, 2)
      [] OTHER -> d.active > 0

\* The outcomes to consider for a transport call: both when the call can
\* change something, success alone when it cannot.
Tries(relevant) == IF relevant THEN BOOLEAN ELSE {TRUE}

\* Line 76 without the capability test.
TogglesIncapable(d, type, active) ==
    d.editable /\ isActive(d, type) # active

\* Line 76 without the comparison with the current state.
TogglesWhateverState(d, type, active) ==
    d.editable /\ isCapable(d, type)

\* Line 76 does not return early: setActive goes on to call the transport.
Toggles(d, type, active) ==
    d.editable /\ isActive(d, type) # active /\ isCapable(d, type)

\* setActive without the check of lines 80-83: the bit is flipped whatever
\* the transport did.
SetActiveCoreUnverified(d, type, active, ok) ==
    IF ~Toggles(d, type, active)
    THEN [dev |-> d, err |-> FALSE, io |-> FALSE, cascade |-> FALSE]
    ELSE LET d1 == IF ~isActive(d, type) THEN openPort(d, type, ok)
                                         ELSE closePort(d, type, ok)
         IN  [dev |-> [d1 EXCEPT !.active = XorBit(d1.active, Bit(type))],
              err |-> FALSE, io |-> TRUE, cascade |-> active]

\* The part of setActive before the cascade (lines 76-96).  Returns the
\* device, whether PortOpenError was prompted, whether the transport was
\* called and whether the cascade of lines 100-124 runs.
SetActiveCore(d, type, active, ok) ==
    IF ~Toggles(d, type, active)
    THEN [dev |-> d, err |-> FALSE, io |-> FALSE, cascade |-> FALSE]
    ELSE LET d1 == IF ~isActive(d, type) THEN openPort(d, type, ok)
                                         ELSE closePort(d, type, ok)
         IN  IF isPortOpen(d1, type) = isActive(d1, type)
             THEN [dev |-> d1, err |-> TRUE, io |-> TRUE, cascade |-> FALSE]
             ELSE [dev |-> [d1 EXCEPT !.active = XorBit(d1.active, Bit(type))],
                   err |-> FALSE, io |-> TRUE, cascade |-> active]

Indices(n) == [i \in 1..n |-> i]

\* What one binding->refresh() call can observe: the device as it is at that
\* moment, whether the manager lists it, and the binding's back-references.
RefreshEvent(b, kind, d, listed, bs) ==
    [binding |-> b, cascade |-> kind, seen |-> d, listed |-> listed,
     refs |-> [k \in 1..Len(bs[b]) |-> bs[b][k].device]]

\* The activation cascade looking at every message of the binding.
NeedsRefreshFirstOrLater(binding, name) ==
    \E k \in 1..Len(binding) : binding[k].deviceName = name

\* Lines 111-116: the binding's first message names the device.
NeedsRefreshFirst(binding, name) ==
    Len(binding) > 0 /\ binding[1].deviceName = name

\* Lines 105-122: the refresh calls of one activation, in binding order.
ActivationCascade(d, listed, bs) ==
    LET Uses(b) == NeedsRefreshFirst(bs[b], d.name)
        hit == SelectSeq(Indices(Len(bs)), Uses)
    IN  [k \in 1..Len(hit) |-> RefreshEvent(hit[k], "narrow", d, listed, bs)]

\* MMGDevice::setActive, whole: the core and the refresh calls it makes.
setActive(d, type, active, ok, listed, bs) ==
    LET r == SetActiveCore(d, type, active, ok)
    IN  [dev |-> r.dev, err |-> r.err, io |-> r.io,
         log |-> IF r.cascade THEN ActivationCascade(r.dev, listed, bs) ELSE << >>]

\* A config record: json_obj["name"], ["active"].toInt(), ["thru"].toString()
\* (an absent "thru" reads as the empty string).
Record(name, active, thru) == [name |-> name, active |-> active, thru |-> thru]

NoErrs == [TYPE_INPUT |-> FALSE, TYPE_OUTPUT |-> FALSE]

\* update returning as soon as a toggle has prompted PortOpenError.
updateAborting(d, json_obj, okIn, okOut, listed, bs) ==
    LET activeState == json_obj.active
        r1 == setActive(d, TYPE_INPUT, HasBit(activeState, 1), okIn, listed, bs)
        r2 == setActive(r1.dev, TYPE_OUTPUT, HasBit(activeState, 2), okOut, listed, bs)
    IN  IF r1.err
        THEN [dev |-> r1.dev,
              errs |-> [TYPE_INPUT |-> TRUE, TYPE_OUTPUT |-> FALSE],
              io |-> [TYPE_INPUT |-> r1.io, TYPE_OUTPUT |-> FALSE],
              log |-> r1.log]
        ELSE [dev |-> [r2.dev EXCEPT !.thru = json_obj.thru],
              errs |-> [TYPE_INPUT |-> r1.err, TYPE_OUTPUT |-> r2.err],
              io |-> [TYPE_INPUT |-> r1.io, TYPE_OUTPUT |-> r2.io],
              log |-> r1.log \o r2.log]

\* MMGDevice::update: input, then output, then thru.
update(d, json_obj, okIn, okOut, listed, bs) ==
    LET activeState == json_obj.active
        r1 == setActive(d, TYPE_INPUT, HasBit(activeState, 1), okIn, listed, bs)
        r2 == setActive(r1.dev, TYPE_OUTPUT, HasBit(activeState, 2), okOut, listed, bs)
    IN  [dev |-> [r2.dev EXCEPT !.thru = json_obj.thru],
         errs |-> [TYPE_INPUT |-> r1.err, TYPE_OUTPUT |-> r2.err],
         io |-> [TYPE_INPUT |-> r1.io, TYPE_OUTPUT |-> r2.io],
         log |-> r1.log \o r2.log]

\* MMGDevice::MMGDevice: the base constructor, then update; the object is
\* not yet in the manager's list while update runs.
MMGDevice(id, json_obj, capable, editable, okIn, okOut, bs) ==
    update(MMGMIDIPort(id, json_obj.name, capable, editable), json_obj,
           okIn, okOut, FALSE, bs)

\* json writing "thru" unconditionally.
jsonAlwaysThru(d) == [name |-> d.name, active |-> d.active, thru |-> d.thru]

\* MMGDevice::json: the serialized record; "thru" only when not empty.
json(d) ==
    IF d.thru # ""
    THEN [name |-> d.name, active |-> d.active, thru |-> d.thru]
    ELSE [name |-> d.name, active |-> d.active]

\* MMGDevice::checkCapable.  oks[1..6] are the outcomes of the six probe
\* calls in source order, oks[7..8] those of the two restoring setActive.
\* probe tells whether the input port was open when openPort(TYPE_OUTPUT) was
\* called (line 140) and whether both ports were open when it returned.
checkCapable(d, oks, listed, bs) ==
    LET active == d.active
        d0 == [d EXCEPT !.active = 0]
        d1 == closePort(d0, TYPE_INPUT, oks[1])
        d2 == closePort(d1, TYPE_OUTPUT, oks[2])
        d3 == openPort(d2, TYPE_INPUT, oks[3])
        d4 == setCapable(d3, TYPE_INPUT, isPortOpen(d3, TYPE_INPUT))
        d5 == openPort(d4, TYPE_OUTPUT, oks[4])
        d6 == setCapable(d5, TYPE_OUTPUT, isPortOpen(d5, TYPE_OUTPUT))
        d7 == closePort(d6, TYPE_INPUT, oks[5])
        d8 == closePort(d7, TYPE_OUTPUT, oks[6])
        r1 == setActive(d8, TYPE_INPUT, HasBit(active, 1), oks[7], listed, bs)
        r2 == setActive(r1.dev, TYPE_OUTPUT, HasBit(active, 2), oks[8], listed, bs)
    IN  [dev |-> r2.dev,
         errs |-> [TYPE_INPUT |-> r1.err, TYPE_OUTPUT |-> r2.err],
         io |-> [TYPE_INPUT |-> TRUE, TYPE_OUTPUT |-> TRUE],
         log |-> r1.log \o r2.log,
         probe |-> [inputOpen |-> isPortOpen(d4, TYPE_INPUT),
                    bothOpen |-> isPortOpen(d5, TYPE_INPUT) /\ isPortOpen(d5, TYPE_OUTPUT)]]

\* ------------------------------------------------------- MMGDeviceManager
\* MMGManager::find: the position of the first device of that name, 0 if none.
find(l, name) ==
    IF \E i \in 1..Len(l) : l[i].name = name
    THEN CHOOSE i \in 1..Len(l) :
            l[i].name = name /\ \A j \in 1..(i - 1) : l[j].name # name
    ELSE 0

\* MMGManager::remove: takes the device at position i out of the list and
\* deletes it.
remove(l, i) == [k \in 1..(Len(l) - 1) |-> IF k < i THEN l[k] ELSE l[k + 1]]

\* MMGManager::add(T *): appends to the list.
ManagerAdd(l, d) == Append(l, d)

LiveIds(l) == {l[i].id : i \in 1..Len(l)}

\* The messages of the tree, as <<binding, message>> positions.
Positions(bs) ==
    UNION {{<<b, k>> : k \in 1..Len(bs[b])} : b \in 1..Len(bs)}

RefIds(bs) == {bs[p[1]][p[2]].device : p \in Positions(bs)} \ {NullDevice}

\* Back-references to deleted devices.
DanglingIds(l, bs) == RefIds(bs) \ LiveIds(l)

\* The identity of a newly allocated device: distinct from every listed
\* device and from every pointer a message still holds.
NewId(l, bs) ==
    CHOOSE n \in 1..(Cardinality(LiveIds(l) \cup RefIds(bs)) + 1) :
        n \notin LiveIds(l) \cup RefIds(bs)

\* The listed device with that id.
DeviceById(l, id) == l[CHOOSE i \in 1..Len(l) : l[i].id = id]

\* The test of line 197 without its first disjunct: null back-references are
\* left alone.
RepointsNamedOnly(m, l, deviceName, ub) ==
    /\ m.device # NullDevice
    /\ \/ /\ m.device \in LiveIds(l)
          /\ DeviceById(l, m.device).name = deviceName
       \/ /\ m.device \notin LiveIds(l)
          /\ m.device \in ub

\* Line 197: the test that decides whether a message is repointed.  Reading
\* objectName() through a pointer to a deleted device is undefined; ub is the
\* set of deleted devices for which that read happens to equal deviceName.
Repoints(m, l, deviceName, ub) ==
    \/ m.device = NullDevice
    \/ /\ m.device \in LiveIds(l)
       /\ DeviceById(l, m.device).name = deviceName
    \/ /\ m.device \notin LiveIds(l)
       /\ m.device \in ub

\* MMGDeviceManager::updateDeviceReferences.
updateDeviceReferences(bs, l, deviceName, newId, ub) ==
    [b \in 1..Len(bs) |->
        [k \in 1..Len(bs[b]) |->
            IF Repoints(bs[b][k], l, deviceName, ub)
            THEN [bs[b][k] EXCEPT !.device = newId]
            ELSE bs[b][k]]]

\* The add cascade looking at the first message only.
NeedsRefreshAnyFirstOnly(binding, deviceName) ==
    Len(binding) > 0 /\ binding[1].deviceName = deviceName

\* Lines 219-224: some message of the binding names the device.
NeedsRefreshAny(binding, deviceName) ==
    \E k \in 1..Len(binding) : binding[k].deviceName = deviceName

\* MMGDeviceManager::refreshBindingsForDevice: the refresh calls, in order.
refreshBindingsForDevice(bs, deviceName, d) ==
    LET Uses(b) == NeedsRefreshAny(bs[b], deviceName)
        hit == SelectSeq(Indices(Len(bs)), Uses)
    IN  [k \in 1..Len(hit) |-> RefreshEvent(hit[k], "broad", d, TRUE, bs)]

\* capableDevices listing the devices active in the direction.
capableDevicesActive(l, type) ==
    LET Active(i) == isActive(l[i], type)
        hit == SelectSeq(Indices(Len(l)), Active)
    IN  [k \in 1..Len(hit) |-> l[hit[k]].name]

\* Lines 243-245: the loop over _list from position i on, devices being the
\* names collected so far.
RECURSIVE capableDevicesLoop(_, _, _, _)
capableDevicesLoop(l, type, i, devices) ==
    IF i > Len(l)
    THEN devices
    ELSE capableDevicesLoop(l, type, i + 1,
             IF isCapable(l[i], type) THEN devices \o <<l[i].name>> ELSE devices)

\* MMGDeviceManager::capableDevices.
capableDevices(l, type) == capableDevicesLoop(l, type, 1, << >>)

NullPositions(bs) == {p \in Positions(bs) : bs[p[1]][p[2]].device = NullDevice}

\* A call that probed nothing.
NoProbe == [inputOpen |-> FALSE, bothOpen |-> FALSE]

\* What last holds after a call.
Call(op, json_obj, overload, created, id, type, want, preActive, errs, io, log, preNull) ==
    [op |-> op, json |-> json_obj, overload |-> overload, created |-> created,
     dev |-> id, type |-> type, want |-> want, preActive |-> preActive,
     errs |-> errs, io |-> io, log |-> log, preNull |-> preNull, probe |-> NoProbe]

\* MMGDeviceManager::add(const QJsonObject &), a device of that name exists.
AddExisting(json_obj, overload, okIn, okOut) ==
    LET deviceName == json_obj.name
        i == find(list, deviceName)
        u == update(list[i], json_obj, okIn, okOut, TRUE, bindings)
    IN  /\ i # 0
        /\ list' = [list EXCEPT ![i] = u.dev]
        /\ bindings' = bindings
        /\ last' = Call("add", json_obj, overload, FALSE, u.dev.id, TYPE_NONE, FALSE,
                        list[i].active, u.errs, u.io,
                        u.log \o refreshBindingsForDevice(bindings, deviceName, u.dev),
                        NullPositions(bindings))

\* add of a new device leaving the placeholder in the list.
AddNewKeepsDummy(json_obj, overload, capable, editable, okIn, okOut, ub) ==
    LET deviceName == json_obj.name
        l1 == list
        c == MMGDevice(NewId(l1, bindings), json_obj, capable, editable,
                       okIn, okOut, bindings)
        newDevice == c.dev
        l2 == ManagerAdd(l1, newDevice)
        bs2 == updateDeviceReferences(bindings, l2, deviceName, newDevice.id, ub)
    IN  /\ ub \subseteq DanglingIds(l2, bindings)
        /\ list' = l2
        /\ bindings' = bs2
        /\ last' = Call("add", json_obj, overload, TRUE, newDevice.id, TYPE_NONE, FALSE,
                        0, c.errs, c.io,
                        c.log \o refreshBindingsForDevice(bs2, deviceName, newDevice),
                        NullPositions(bindings))

\* MMGDeviceManager::add(const QJsonObject &), no device of that name exists.
\* capable and editable are what the base constructor leaves in the new
\* object; ub resolves the reads through dangling pointers.
AddNew(json_obj, overload, capable, editable, okIn, okOut, ub) ==
    LET deviceName == json_obj.name
        l1 == IF find(list, Dummy) # 0 THEN remove(list, find(list, Dummy)) ELSE list
        c == MMGDevice(NewId(l1, bindings), json_obj, capable, editable,
                       okIn, okOut, bindings)
        newDevice == c.dev
        l2 == ManagerAdd(l1, newDevice)
        bs2 == updateDeviceReferences(bindings, l2, deviceName, newDevice.id, ub)
    IN  /\ ub \subseteq DanglingIds(l2, bindings)
        /\ list' = l2
        /\ bindings' = bs2
        /\ last' = Call("add", json_obj, overload, TRUE, newDevice.id, TYPE_NONE, FALSE,
                        0, c.errs, c.io,
                        c.log \o refreshBindingsForDevice(bs2, deviceName, newDevice),
                        NullPositions(bindings))

\* What the base constructor can leave in a new object.  The transport has
\* ports for the real names only: the placeholder names none, so nothing is
\* capable on it, and the application never locks it.
CtorCapable(name) == IF name \in RealNames THEN 0..3 ELSE {0}

CtorEditable(name) == IF name \in RealNames THEN BOOLEAN ELSE {TRUE}

\* The outcomes of the two transport calls update may make on d.
UpdateTries(d, json_obj) ==
    {o \in BOOLEAN \X BOOLEAN :
        /\ o[1] \in Tries(Toggles(d, TYPE_INPUT, HasBit(json_obj.active, 1)))
        /\ o[2] \in Tries(\E a \in {d.active, XorBit(d.active, 1)} :
                Toggles([d EXCEPT !.active = a], TYPE_OUTPUT, HasBit(json_obj.active, 2)))}

\* Lines 165-179 with everything the new object and the dangling reads can
\* turn out to be.
AddCreate(json_obj, overload) ==
    \E capable \in CtorCapable(json_obj.name),
       editable \in CtorEditable(json_obj.name) :
        \E o \in UpdateTries(MMGMIDIPort(0, json_obj.name, capable, editable), json_obj),
           ub \in SUBSET DanglingIds(
                     IF find(list, Dummy) # 0 THEN remove(list, find(list, Dummy)) ELSE list,
                     bindings) :
            AddNew(json_obj, overload, capable, editable, o[1], o[2], ub)

\* add creating a device without looking for an existing one.
AddAlwaysCreates(json_obj, overload) == AddCreate(json_obj, overload)

\* MMGDeviceManager::add(const QJsonObject &): update the device found under
\* the name (line 159), or create one.
Add(json_obj, overload) ==
    \/ /\ find(list, json_obj.name) # 0
       /\ \E o \in UpdateTries(list[find(list, json_obj.name)], json_obj) :
            AddExisting(json_obj, overload, o[1], o[2])
    \/ /\ find(list, json_obj.name) = 0
       /\ AddCreate(json_obj, overload)

\* add(json_obj) with a config record of a real device.
AddRecord ==
    \E name \in RealNames, active \in 0..MaxActive, thru \in ThruNames :
        Add(Record(name, active, thru), FALSE)

\* add(name) handing an existing device its own activation and thru.
AddNameKeepsState ==
    \E name \in DeviceNames :
        LET i == find(list, name)
        IN  Add(IF i # 0 THEN Record(name, list[i].active, list[i].thru)
                         ELSE Record(name, 0, ""), TRUE)

\* MMGDeviceManager::add(const QString &): a record holding only the name.
AddName ==
    \E name \in DeviceNames : Add(Record(name, 0, ""), TRUE)

\* The devices the callers toggle, probe and lock: the real ones; the
\* placeholder is only ever added and replaced.
Toggled(d) == d.name \in RealNames

\* A caller invokes device->setActive(type, active).
SetActive ==
    \E i \in 1..Len(list), type \in Directions, active \in BOOLEAN :
        \E ok \in Tries(Toggles(list[i], type, active)) :
            LET r == setActive(list[i], type, active, ok, TRUE, bindings)
            IN  /\ Toggled(list[i])
                /\ list' = [list EXCEPT ![i] = r.dev]
                /\ bindings' = bindings
                /\ last' = Call("setActive", Record(list[i].name, 0, ""), FALSE, FALSE,
                                list[i].id, type, active, list[i].active,
                                [NoErrs EXCEPT ![type] = r.err],
                                [NoErrs EXCEPT ![type] = r.io], r.log,
                                NullPositions(bindings))

\* The outcomes of the eight transport calls checkCapable may make on d,
\* each direction on its own: the first close, the open, the second close
\* and the restoring setActive.
ProbeTries(d, type) ==
    {o \in [1..4 -> BOOLEAN] :
        LET d1 == closePort([d EXCEPT !.active = 0], type, o[1])
            d2 == openPort(d1, type, o[2])
            d3 == setCapable(d2, type, isPortOpen(d2, type))
            d4 == closePort(d3, type, o[3])
        IN  /\ o[1] \in Tries(isPortOpen(d, type))
            /\ o[2] \in Tries(~isPortOpen(d1, type))
            /\ o[3] \in Tries(isPortOpen(d2, type))
            /\ o[4] \in Tries(Toggles(d4, type, isActive(d, type)))}

\* A caller invokes device->checkCapable().
CheckCapable ==
    \E i \in 1..Len(list) :
        \E oi \in ProbeTries(list[i], TYPE_INPUT), oo \in ProbeTries(list[i], TYPE_OUTPUT) :
            LET oks == <<oi[1], oo[1], oi[2], oo[2], oi[3], oo[3], oi[4], oo[4]>>
                r == checkCapable(list[i], oks, TRUE, bindings)
            IN  /\ Toggled(list[i])
                /\ list' = [list EXCEPT ![i] = r.dev]
                /\ bindings' = bindings
                /\ last' = [Call("checkCapable", Record(list[i].name, 0, ""), FALSE, FALSE,
                                 list[i].id, TYPE_NONE, FALSE, list[i].active,
                                 r.errs, r.io, r.log, NullPositions(bindings))
                                EXCEPT !.probe = r.probe]

\* The application locks or unlocks a device (the public member editable).
SetEditable ==
    \E i \in 1..Len(list) :
        /\ Toggled(list[i])
        /\ list' = [list EXCEPT ![i].editable = ~list[i].editable]
        /\ bindings' = bindings
        /\ last' = Call("setEditable", Record(list[i].name, 0, ""), FALSE, FALSE,
                        list[i].id, TYPE_NONE, FALSE, list[i].active,
                        NoErrs, NoErrs, << >>, NullPositions(bindings))

\* A caller invokes manager->remove(device).
Remove ==
    \E i \in 1..Len(list) :
        /\ list' = remove(list, i)
        /\ bindings' = bindings
        /\ last' = Call("remove", Record(list[i].name, 0, ""), FALSE, FALSE,
                        list[i].id, TYPE_NONE, FALSE, list[i].active,
                        NoErrs, NoErrs, << >>, NullPositions(bindings))

\* After construction: an empty manager, and a configuration tree whose
\* messages carry device names and no device yet.
Init ==
    /\ list = << >>
    /\ bindings = [b \in 1..NumBindings |->
                      [k \in 1..Len(BindingShape(b)) |->
                          [deviceName |-> BindingShape(b)[k], device |-> NullDevice]]]
    /\ last = Call("init", Record("", 0, ""), FALSE, FALSE, NullDevice, TYPE_NONE,
                   FALSE, 0, NoErrs, NoErrs, << >>, {})

Next ==
    \/ AddRecord
    \/ AddName
    \/ SetActive
    \/ CheckCapable
    \/ SetEditable

Spec == Init /\ [][Next]_vars

\* The registry with explicit removals: records and names are added, devices
\* are toggled and locked, and any device may be removed.
NextRemove ==
    \/ AddRecord
    \/ AddName
    \/ SetActive
    \/ SetEditable
    \/ Remove

SpecRemove == Init /\ [][NextRemove]_vars

\* ------------------------------------------------- capableDevices queries
\* The device names of the registries capableDevices is asked about; a
\* device's id is the position of its name here.
QueryNames == <<"A", "B", "C">>

\* A registered device of the k-th name: any capability, any set of capable
\* directions active with their ports open.
QueryDevices(k) ==
    UNION {{[MMGMIDIPort(k, QueryNames[k], capable, TRUE)
                EXCEPT !.active = active, !.port = active] :
               active \in {a \in 0..3 : \A type \in Directions :
                               HasBit(a, Bit(type)) => HasBit(capable, Bit(type))}} :
           capable \in 0..3}

\* The registries: up to one device per name, in any order.
Registries ==
    {l \in UNION {[1..n -> UNION {QueryDevices(k) : k \in 1..Len(QueryNames)}] :
                     n \in 0..Len(QueryNames)} :
        \A i, j \in 1..Len(l) : l[i].name = l[j].name => i = j}

InitCapable ==
    /\ list \in Registries
    /\ bindings = << >>
    /\ last = [op |-> "init"]

\* A caller invokes manager->capableDevices(type).
CapableDevices ==
    \E type \in Directions :
        /\ list' = list
        /\ bindings' = bindings
        /\ last' = [op |-> "capableDevices", type |-> type,
                    devices |-> capableDevices(list, type)]

NextCapable == CapableDevices

SpecCapable == InitCapable /\ [][NextCapable]_vars

\* ------------------------------------------------------------ properties
\* The device the last call was about, as it is now.
LastDevice == DeviceById(list, last.dev)

\* How many times the last call invoked refresh() on binding b.
Refreshes(b) == Cardinality({k \in 1..Len(last.log) : last.log[k].binding = b})

\* Binding b has a message (at any position) naming the device.
Names(b, name) == \E k \in 1..Len(bindings[b]) : bindings[b][k].deviceName = name

\* Binding b's first message names the device.
FirstNames(b, name) == Len(bindings[b]) > 0 /\ Head(bindings[b]).deviceName = name

\* C1: every refresh() made during add sees the device as add leaves it
\* (fully updated and registered) and sees every message of its binding
\* that names the added device already pointing at that device.
C1_RefreshAfterRepoint ==
    last.op = "add" =>
        \A k \in 1..Len(last.log) :
            LET e == last.log[k]
            IN  /\ e.seen = LastDevice
                /\ e.listed
                /\ \A m \in 1..Len(e.refs) :
                      bindings[e.binding][m].deviceName = last.json.name
                          => e.refs[m] = last.dev

\* C2: every non-null back-reference of a message points at a device that
\* is in the registry.
C2_NoDanglingReference == RefIds(bindings) \subseteq LiveIds(list)

\* C3, as stated: after setActive(x, true) without PortOpenError the
\* direction is active and its port open; after a PortOpenError the
\* direction's activity is what it was before.
C3_AsStated ==
    (last.op = "setActive" /\ last.want) =>
        IF last.errs[last.type]
        THEN isActive(LastDevice, last.type) = HasBit(last.preActive, Bit(last.type))
        ELSE isActive(LastDevice, last.type) /\ isPortOpen(LastDevice, last.type)

\* C3, amended: the same for an editable device and a capable direction; on
\* a device that is not editable or a direction that is not capable the call
\* reports nothing and leaves the direction's activity as it was.
C3_SetActiveOutcome ==
    (last.op = "setActive" /\ last.want) =>
        IF last.errs[last.type]
        THEN isActive(LastDevice, last.type) = HasBit(last.preActive, Bit(last.type))
        ELSE IF LastDevice.editable /\ isCapable(LastDevice, last.type)
             THEN isActive(LastDevice, last.type) /\ isPortOpen(LastDevice, last.type)
             ELSE isActive(LastDevice, last.type) = HasBit(last.preActive, Bit(last.type))

\* setActive(x, true) went to the transport, the port opened, x is active.
C3_Witness ==
    /\ last.op = "setActive" /\ last.want
    /\ last.io[last.type] /\ ~last.errs[last.type]
    /\ ~HasBit(last.preActive, Bit(last.type))
    /\ isActive(LastDevice, last.type)

\* C4: after checkCapable, a direction that was active before is active
\* again if the probe found it capable and inactive if it did not, whatever
\* the editable flag.  (Stated for calls that reported no PortOpenError.)
C4_IntentPreserved ==
    (last.op = "checkCapable" /\ last.errs = NoErrs) =>
        \A type \in Directions :
            HasBit(last.preActive, Bit(type)) =>
                isActive(LastDevice, type) = isCapable(LastDevice, type)

\* C5: between calls, a direction's active bit is set exactly when the
\* transport has its port open.
C5_ActiveIffOpen ==
    \A i \in 1..Len(list) : \A type \in Directions :
        isActive(list[i], type) = isPortOpen(list[i], type)

\* C6, as stated: after add(record) the device serializes to the record's
\* name, the record's active integer, and thru present iff it was non-empty.
C6_AsStated ==
    last.op = "add" =>
        /\ json(LastDevice).name = last.json.name
        /\ json(LastDevice).active = last.json.active
        /\ ("thru" \in DOMAIN json(LastDevice)) = (last.json.thru # "")

\* C6, amended: name and thru round-trip; each direction's bit of the
\* emitted active integer is the record's bit when the device is editable,
\* the direction capable and no PortOpenError was reported for it, and the
\* bit the device had before add otherwise; nothing above bit 1 is emitted.
C6_RoundTrip ==
    last.op = "add" =>
        /\ json(LastDevice).name = last.json.name
        /\ ("thru" \in DOMAIN json(LastDevice)) = (last.json.thru # "")
        /\ "thru" \in DOMAIN json(LastDevice) => json(LastDevice).thru = last.json.thru
        /\ json(LastDevice).active \in 0..3
        /\ \A type \in Directions :
              HasBit(json(LastDevice).active, Bit(type)) =
                  IF /\ LastDevice.editable
                     /\ isCapable(LastDevice, type)
                     /\ ~last.errs[type]
                  THEN HasBit(last.json.active, Bit(type))
                  ELSE HasBit(last.preActive, Bit(type))

\* add of a record asking for both directions and a thru name, all applied.
C6_Witness ==
    /\ last.op = "add" /\ last.json.active = 3 /\ last.json.thru # ""
    /\ json(LastDevice) = [name |-> last.json.name, active |-> 3, thru |-> last.json.thru]

\* Some message naming the added device had a null back-reference before.
NullNamedBefore ==
    \E p \in last.preNull : bindings[p[1]][p[2]].deviceName = last.json.name

\* C7, as stated: add({name, active:3}) of a new device leaves the messages
\* that named it with a null back-reference pointing at the new device, and
\* the new device active in both directions.
C7_AsStated ==
    (last.op = "add" /\ last.created /\ last.json.active = 3 /\ NullNamedBefore) =>
        /\ \A p \in last.preNull :
              bindings[p[1]][p[2]].deviceName = last.json.name
                  => bindings[p[1]][p[2]].device = last.dev
        /\ isActive(LastDevice, TYPE_INPUT)
        /\ isActive(LastDevice, TYPE_OUTPUT)

\* C7, amended: the back-reference part as stated; a direction of the new
\* device is active exactly when the device is editable, the direction
\* capable and its port opened (no PortOpenError).
C7_IdentityCascade ==
    (last.op = "add" /\ last.created /\ last.json.active = 3 /\ NullNamedBefore) =>
        /\ \A p \in last.preNull :
              bindings[p[1]][p[2]].deviceName = last.json.name
                  => bindings[p[1]][p[2]].device = last.dev
        /\ \A type \in Directions :
              isActive(LastDevice, type) =
                  (LastDevice.editable /\ isCapable(LastDevice, type) /\ ~last.errs[type])

\* A new device added with active 3 while a message naming it had no device,
\* and both directions came up.
C7_Witness ==
    /\ last.op = "add" /\ last.created /\ last.json.active = 3 /\ NullNamedBefore
    /\ LastDevice.active = 3

\* The last call took its direction from inactive to active.
Activated ==
    /\ last.want
    /\ ~HasBit(last.preActive, Bit(last.type))
    /\ isActive(LastDevice, last.type)

\* C8: a setActive that activates refreshes exactly once each binding whose
\* first message names the device and no other binding; any other setActive
\* refreshes nothing.
C8_NarrowCascade ==
    last.op = "setActive" =>
        \A b \in 1..Len(bindings) :
            Refreshes(b) =
                IF Activated /\ FirstNames(b, LastDevice.name) THEN 1 ELSE 0

\* An activation happened and a binding was refreshed, while a binding that
\* names the device in a later message only exists.
C8_Witness ==
    /\ last.op = "setActive" /\ Activated
    /\ \E b \in 1..Len(bindings) : Refreshes(b) = 1
    /\ \E b \in 1..Len(bindings) :
          Names(b, LastDevice.name) /\ ~FirstNames(b, LastDevice.name)

\* C9: add refreshes, before it returns, every binding with a message naming
\* the device at any position, and no binding without one.
C9_BroadCascade ==
    last.op = "add" =>
        \A b \in 1..Len(bindings) :
            (Refreshes(b) > 0) = Names(b, last.json.name)

\* An add of an existing device refreshed a binding that names it only in a
\* later message.
C9_Witness ==
    /\ last.op = "add" /\ ~last.created
    /\ \E b \in 1..Len(bindings) :
          /\ Refreshes(b) > 0
          /\ ~FirstNames(b, last.json.name)

\* C10: no two registered devices have the same name, and the device an add
\* returns is the one registered under the record's name.
C10_UniqueNames ==
    /\ \A i, j \in 1..Len(list) : list[i].name = list[j].name => i = j
    /\ last.op = "add" =>
          /\ last.dev \in LiveIds(list)
          /\ LastDevice.name = last.json.name

\* An add of a name already registered, with two devices in the registry.
C10_Witness ==
    /\ last.op = "add" /\ ~last.created
    /\ Len(list) = 2

\* The ids of the placeholder devices of a list.
DummyIds(l) == {l[i].id : i \in {j \in 1..Len(l) : l[j].name = Dummy}}

\* C11: an add that creates a device takes the placeholder out of the
\* registry (from a registry holding only the placeholder, exactly the new
\* device remains); an add under a registered name leaves the placeholder in.
C11_DummyReplacement ==
    [][last'.op = "add" =>
          IF last'.created
          THEN /\ DummyIds(list) \cap LiveIds(list') = {}
               /\ (Len(list) = 1 /\ list[1].name = Dummy) =>
                      (Len(list') = 1 /\ list'[1].name = last'.json.name)
               /\ Len(list') = Len(list) - Cardinality(DummyIds(list)) + 1
          ELSE /\ DummyIds(list) \subseteq LiveIds(list')
               /\ Len(list') = Len(list)]_vars

\* add has just created "A" as the only device under an id other than the
\* first: the first id went to the placeholder, which this add replaced (a
\* real device is never taken out, and the placeholder only by this add).
C11_Witness ==
    /\ last.op = "add" /\ last.created /\ last.json.name \in RealNames
    /\ Len(list) = 1
    /\ list[1].name = last.json.name
    /\ list[1].id # 1

\* C12: a message whose device name no registered device carries has a null
\* back-reference, and add for a name leaves null the back-reference of
\* every message that names another device.
C12_UnresolvedStaysNull ==
    /\ \A p \in Positions(bindings) :
          find(list, bindings[p[1]][p[2]].deviceName) = 0
              => bindings[p[1]][p[2]].device = NullDevice
    /\ last.op = "add" =>
          \A p \in last.preNull :
              bindings[p[1]][p[2]].deviceName # last.json.name
                  => bindings[p[1]][p[2]].device = NullDevice

\* The last call was setActive asking for the state the direction had.
RequestedCurrent ==
    /\ last.op = "setActive"
    /\ last.want = HasBit(last.preActive, Bit(last.type))

\* C13: setActive(x, isActive(x)) makes no transport call, leaves the active
\* mask as it was, prompts no PortOpenError and refreshes no binding.
C13_Idempotent ==
    RequestedCurrent =>
        /\ last.io = NoErrs
        /\ LastDevice.active = last.preActive
        /\ last.errs = NoErrs
        /\ last.log = << >>

\* setActive(x, TRUE) on an editable device capable of x and active in x:
\* only the comparison with the current state stops the call.
C13_Witness ==
    /\ RequestedCurrent
    /\ last.want
    /\ LastDevice.editable
    /\ isCapable(LastDevice, last.type)

\* C14: in every state, a direction of a registered device that is active
\* is capable.
C14_ActiveImpliesCapable ==
    \A i \in 1..Len(list), type \in Directions :
        isActive(list[i], type) => isCapable(list[i], type)

\* checkCapable has found a direction that was active not capable (and left
\* it inactive) while the other direction is active again.
C14_Witness ==
    /\ last.op = "checkCapable"
    /\ \E type \in Directions :
          /\ HasBit(last.preActive, Bit(type))
          /\ ~isCapable(LastDevice, type)
          /\ ~isActive(LastDevice, type)
    /\ LastDevice.active # 0

\* The positions of the devices capable of the direction last asked about.
CapablePositions == {i \in 1..Len(list) : isCapable(list[i], last.type)}

\* C15: capableDevices(direction) returns the names of exactly the
\* registered devices capable of the direction, each once, in registry
\* order, active or not.
C15_CapableDevices ==
    last.op = "capableDevices" =>
        /\ Len(last.devices) = Cardinality(CapablePositions)
        /\ \A i \in CapablePositions :
              \E k \in 1..Len(last.devices) : last.devices[k] = list[i].name
        /\ \A k \in 1..Len(last.devices) :
              \E i \in CapablePositions : last.devices[k] = list[i].name
        /\ \A k1, k2 \in 1..Len(last.devices) :
              k1 < k2 => find(list, last.devices[k1]) < find(list, last.devices[k2])

\* capableDevices(Output) over three devices, out of name order: the first
\* not capable of output, the second capable and inactive, the third capable
\* and active; the last two are returned.
C15_Witness ==
    /\ last.op = "capableDevices" /\ last.type = TYPE_OUTPUT
    /\ Len(list) = 3
    /\ list[1].name = "C" /\ ~isCapable(list[1], TYPE_OUTPUT)
    /\ list[2].name = "B" /\ isCapable(list[2], TYPE_OUTPUT) /\ ~isActive(list[2], TYPE_OUTPUT)
    /\ list[3].name = "A" /\ isActive(list[3], TYPE_OUTPUT)
    /\ last.devices = <<"B", "A">>

\* C16: during checkCapable the input port is closed when the output port
\* is opened, and the two ports are not open at the same time.
C16_ProbesOneAtATime ==
    last.op = "checkCapable" =>
        /\ ~last.probe.inputOpen
        /\ ~last.probe.bothOpen

\* The record of the last add asks for a change of the direction on a device
\* that is editable and capable of it.
AddToggles(type) ==
    /\ LastDevice.editable
    /\ isCapable(LastDevice, type)
    /\ HasBit(last.json.active, Bit(type)) # HasBit(last.preActive, Bit(type))

\* C17: an add during which a toggle prompted PortOpenError still attempts
\* every toggle the record asks for (each failure prompting for its own
\* direction), stores thru, has the device registered under the name,
\* points the null back-references at a device it created and refreshes the
\* bindings naming the device; and a request for a direction the device is
\* not capable of makes no transport call and prompts nothing.
C17_ErrorDoesNotAbort ==
    /\ (last.op = "add" /\ last.errs # NoErrs) =>
          /\ \A type \in Directions :
                /\ last.io[type] = AddToggles(type)
                /\ last.errs[type] => last.io[type]
          /\ LastDevice.thru = last.json.thru
          /\ last.dev \in LiveIds(list)
          /\ LastDevice.name = last.json.name
          /\ last.created =>
                \A p \in last.preNull : bindings[p[1]][p[2]].device = last.dev
          /\ \A b \in 1..Len(bindings) :
                Names(b, last.json.name) =>
                    \E k \in 1..Len(last.log) :
                        last.log[k].binding = b /\ last.log[k].cascade = "broad"
    /\ last.op \in {"add", "setActive"} =>
          \A type \in Directions :
              ~isCapable(LastDevice, type) => (~last.io[type] /\ ~last.errs[type])

\* An add that created a device from a record with thru: the input toggle
\* prompted PortOpenError, the output toggle was made after it and took
\* effect; some back-references were null before.
C17_Witness ==
    /\ last.op = "add" /\ last.created
    /\ last.json.thru # ""
    /\ last.errs[TYPE_INPUT]
    /\ last.io[TYPE_OUTPUT]
    /\ isActive(LastDevice, TYPE_OUTPUT)
    /\ last.preNull # {}

\* The last call was add(name) for a name that was registered.
AddNameExisting == last.op = "add" /\ last.overload /\ ~last.created

\* C18: after add(name) for a registered name the device's thru is empty,
\* and a direction that was active on an editable device and whose port
\* closed (it is not open, or no PortOpenError was prompted for it) is
\* inactive.
C18_AddNameResets ==
    AddNameExisting =>
        /\ LastDevice.thru = ""
        /\ \A type \in Directions :
              (/\ LastDevice.editable
               /\ HasBit(last.preActive, Bit(type))
               /\ ~isPortOpen(LastDevice, type) \/ ~last.errs[type])
                  => ~isActive(LastDevice, type)

\* add("A") on an editable device "A" with both directions active: both
\* ports closed and nothing is active any more.
C18_Witness ==
    /\ AddNameExisting
    /\ LastDevice.editable
    /\ last.preActive = 3
    /\ LastDevice.port = 0
    /\ LastDevice.active = 0

\* C19: a call of add, setActive or checkCapable about a device that is not
\* editable leaves its active mask as it was and makes no transport call.
C19_NotEditableFrame ==
    (/\ last.op \in {"add", "setActive", "checkCapable"}
     /\ ~LastDevice.editable) =>
        /\ LastDevice.active = last.preActive
        /\ last.io = NoErrs

====
